---- MODULE Spec2Model ----
(***************************************************************************)
(* Model of the analysis core of purchase_dashboard:                       *)
(*   app/ml/anomaly_detector.py     (AnomalyDetector)                      *)
(*   app/ml/personality_analyzer.py (PersonalityAnalyzer)                  *)
(*   app/analytics.py               (PurchaseAnalyzer, alert fusion)       *)
(*                                                                         *)
(* Numbers that are floats in the program are exact rationals <<n, d>>     *)
(* here (d > 0, lowest terms); <<0, 0>> stands for NaN.  Timestamps are    *)
(* seconds.  The Korean category names of the source are written           *)
(*   snack = 간식, entertainment = 오락, toy = 장난감,                     *)
(*   education = 교육, other = 기타.                                       *)
(***************************************************************************)
EXTENDS Integers, Sequences, FiniteSets, TLC

\* df: the subject's event list; now: the wall clock; afiles, pfiles: the
\* artifact files of the anomaly detector and of the personality analyzer;
\* origin: the training run that wrote each artifact file; calls: the
\* concurrent calls in flight; arg, ret: the inputs and the result of the
\* latest call
VARIABLES df, now, afiles, pfiles, origin, calls, arg, ret

vars == <<df, now, afiles, pfiles, origin, calls, arg, ret>>

(***************************************************************************)
(* Bounds of the model                                                     *)
(***************************************************************************)
\* largest number of rows of a subject's event list
MaxEvents == 3
\* longest list of merged findings given to the prioritisation step
MaxFindings == 6
\* longest list of alerts of one source given to the fusion step
MaxSourceAlerts == 4
\* largest population (number of subjects) handed to a training call
MaxSubjects == 5

\* the largest event list of the requests with a longer history
MaxWideEvents == 5

(***************************************************************************)
(* Exact rational arithmetic                                               *)
(***************************************************************************)
Abs(x) == IF x < 0 THEN -x ELSE x

RECURSIVE GCD(_, _)
GCD(a, b) == IF b = 0 THEN a ELSE GCD(b, a % b)

NaN == <<0, 0>>

IsNaN(a) == a[2] = 0

Rat(n, d) ==
    IF d = 0 THEN NaN
    ELSE LET g == GCD(Abs(n), Abs(d))
             s == IF d < 0 THEN -1 ELSE 1
         IN  <<(s * n) \div g, (s * d) \div g>>

RInt(n) == <<n, 1>>

RAdd(a, b) == IF IsNaN(a) \/ IsNaN(b) THEN NaN
              ELSE Rat(a[1] * b[2] + b[1] * a[2], a[2] * b[2])
RSub(a, b) == IF IsNaN(a) \/ IsNaN(b) THEN NaN
              ELSE Rat(a[1] * b[2] - b[1] * a[2], a[2] * b[2])
RMul(a, b) == IF IsNaN(a) \/ IsNaN(b) THEN NaN
              ELSE Rat(a[1] * b[1], a[2] * b[2])
RDiv(a, b) == IF IsNaN(a) \/ IsNaN(b) THEN NaN
              ELSE Rat(a[1] * b[2], a[2] * b[1])
RAbs(a)    == <<Abs(a[1]), a[2]>>

\* comparisons are False as soon as one side is NaN, as for Python floats
RLt(a, b) == ~IsNaN(a) /\ ~IsNaN(b) /\ a[1] * b[2] < b[1] * a[2]
RGt(a, b) == RLt(b, a)
RLe(a, b) == ~IsNaN(a) /\ ~IsNaN(b) /\ a[1] * b[2] <= b[1] * a[2]
RGe(a, b) == RLe(b, a)
RIsZero(a) == ~IsNaN(a) /\ a[1] = 0

\* Python's min(a, b) / max(a, b): the first argument unless the second is
\* strictly smaller / larger
RMin(a, b) == IF RLt(b, a) THEN b ELSE a
RMax(a, b) == IF RGt(b, a) THEN b ELSE a

(***************************************************************************)
(* Sequences of numbers                                                    *)
(***************************************************************************)
RECURSIVE SumSeq(_)
SumSeq(s) == IF s = <<>> THEN 0 ELSE Head(s) + SumSeq(Tail(s))

RECURSIVE MaxSeq(_)
MaxSeq(s) == IF Len(s) = 1 THEN s[1]
             ELSE LET m == MaxSeq(Tail(s)) IN IF s[1] > m THEN s[1] ELSE m

RECURSIVE MinSeq(_)
MinSeq(s) == IF Len(s) = 1 THEN s[1]
             ELSE LET m == MinSeq(Tail(s)) IN IF s[1] < m THEN s[1] ELSE m

Map(s, Op(_)) == [i \in 1..Len(s) |-> Op(s[i])]

Count(s, P(_)) == Cardinality({i \in 1..Len(s) : P(s[i])})

Range(s) == {s[i] : i \in 1..Len(s)}

\* pandas Series.var(): the sample variance (ddof = 1); NaN for one value
Var(s) ==
    LET n  == Len(s)
        sq == [i \in 1..n |-> s[i] * s[i]]
    IN  IF n < 2 THEN NaN
        ELSE Rat(n * SumSeq(sq) - SumSeq(s) * SumSeq(s), n * (n - 1))

\* ascending insertion sort of a sequence of integers
RECURSIVE Insert(_, _)
Insert(x, s) == IF s = <<>> THEN <<x>>
                ELSE IF x <= Head(s) THEN <<x>> \o s
                ELSE <<Head(s)>> \o Insert(x, Tail(s))

RECURSIVE SortInts(_)
SortInts(s) == IF s = <<>> THEN <<>> ELSE Insert(Head(s), SortInts(Tail(s)))

(***************************************************************************)
(* Purchase events and the event lists of the model                        *)
(***************************************************************************)
\* the five known categories, in the order the source iterates over them
Categories == <<"snack", "entertainment", "toy", "education", "other">>

CategorySet == Range(Categories)

window_days == 7

Day == 86400

\* the wall clock values at which a request is served
Now0 == 20 * Day

Clock == {Now0, Now0 + 7200}

\* the first instant of the recent window for the clock value Now0
Edge == Now0 - window_days * Day

Ev(t, nm, p, c, ts) ==
    [type |-> t, name |-> nm, price |-> p, cnt |-> c, timestamp |-> ts]

\* the purchase records the data layer can deliver (price, cnt are the
\* integers get_purchase_data produces: row 3 has the quantity 0 that
\* fillna(0) gives a record without cnt); rows 1-3 are older than the recent
\* window, rows 4-8 are inside it for the clock value Now0
Catalogue ==
    << Ev("snack",         "chips", 11, 2, 2 * Day + 36000),
       Ev("education",     "book",   9, 1, 2 * Day + 37800),
       Ev("toy",           "robot", 11, 0, 5 * Day + 54000),
       Ev("snack",         "chips", 11, 5, Edge),
       Ev("education",     "book",   9, 1, Edge + 5400),
       Ev("other",         "pen",   11, 1, Edge + 7200),
       Ev("snack",         "candy", 11, 7, 16 * Day + 72000),
       Ev("entertainment", "game",  35, 1, 16 * Day + 72000) >>

RECURSIVE SetToSortedSeq(_)
SetToSortedSeq(S) ==
    IF S = {} THEN <<>>
    ELSE LET m == CHOOSE x \in S : \A y \in S : x <= y
         IN  <<m>> \o SetToSortedSeq(S \ {m})

\* the event lists of at most MaxEvents rows
EventLists ==
    { [i \in 1..Cardinality(S) |-> Catalogue[SetToSortedSeq(S)[i]]] :
        S \in {T \in SUBSET (1..Len(Catalogue)) : Cardinality(T) <= MaxEvents} }

amount(e) == e.price * e.cnt

(***************************************************************************)
(* AnomalyDetector: feature extraction                                     *)
(***************************************************************************)
PeriodKeys ==
    {"total_spent", "total_purchases", "avg_amount", "time_variance",
     "weekday_variance", "avg_interval", "min_interval", "price_variance",
     "price_range", "impulse_score", "unique_items", "unique_categories"}

key_metrics ==
    <<"total_spent", "total_purchases", "avg_amount", "time_variance",
      "avg_interval", "price_variance", "impulse_score">>

RatioKey(c) ==
    CASE c = "snack" -> "snack_ratio"
      [] c = "entertainment" -> "entertainment_ratio"
      [] c = "toy" -> "toy_ratio"
      [] c = "education" -> "education_ratio"
      [] c = "other" -> "other_ratio"

ShiftKey(c) ==
    CASE c = "snack" -> "snack_shift"
      [] c = "entertainment" -> "entertainment_shift"
      [] c = "toy" -> "toy_shift"
      [] c = "education" -> "education_shift"
      [] c = "other" -> "other_shift"

ChangeKey(m) ==
    CASE m = "total_spent" -> "total_spent_change"
      [] m = "total_purchases" -> "total_purchases_change"
      [] m = "avg_amount" -> "avg_amount_change"
      [] m = "time_variance" -> "time_variance_change"
      [] m = "avg_interval" -> "avg_interval_change"
      [] m = "price_variance" -> "price_variance_change"
      [] m = "impulse_score" -> "impulse_score_change"

\* dict.get(key, default)
Get(f, k, default) == IF k \in DOMAIN f THEN f[k] ELSE default

\* the gaps, in seconds, between consecutive purchases sorted by time
time_diffs(rows) ==
    LET s == SortInts(Map(rows, LAMBDA e : e.timestamp))
    IN  [i \in 1..(Len(s) - 1) |-> s[i + 1] - s[i]]

hour(e) == (e.timestamp \div 3600) % 24

weekday(e) == (e.timestamp \div Day) % 7

\* rows is a non-empty list (both callers test for emptiness first)
_calculate_period_features(rows) ==
    LET n      == Len(rows)
        spent  == SumSeq(Map(rows, amount))
        diffs  == time_diffs(rows)
        prices == Map(rows, LAMBDA e : e.price)
        base   ==
          [k \in PeriodKeys |->
            CASE k = "total_spent"      -> RInt(spent)
              [] k = "total_purchases"  -> RInt(n)
              [] k = "avg_amount"       -> Rat(spent, n)
              [] k = "time_variance"    ->
                     IF n > 1 THEN Var(Map(rows, hour)) ELSE RInt(0)
              [] k = "weekday_variance" ->
                     IF n > 1 THEN Var(Map(rows, weekday)) ELSE RInt(0)
              [] k = "avg_interval"     ->
                     IF n > 1 THEN Rat(SumSeq(diffs), 3600 * Len(diffs))
                     ELSE RInt(24)
              [] k = "min_interval"     ->
                     IF n > 1 THEN Rat(MinSeq(diffs), 3600) ELSE RInt(24)
              [] k = "price_variance"   ->
                     IF n > 1 THEN Var(prices) ELSE RInt(0)
              [] k = "price_range"      ->
                     IF n > 1 THEN RInt(MaxSeq(prices) - MinSeq(prices))
                     ELSE RInt(0)
              [] k = "impulse_score"    ->
                     Rat(Count(diffs, LAMBDA d : d < 3600), n)
              [] k = "unique_items"     ->
                     RInt(Cardinality({e.name : e \in Range(rows)}))
              [] k = "unique_categories" ->
                     RInt(Cardinality({e.type : e \in Range(rows)}))]
        ratios ==
          [k \in {RatioKey(c) : c \in CategorySet} |->
            LET c == CHOOSE c \in CategorySet : RatioKey(c) = k
            IN  RMul(Rat(Count(rows, LAMBDA e : e.type = c), n), RInt(100))]
    IN  ratios @@ base

\* variant: a zero baseline always gives the change 0
_calculate_change_features_zero_baseline_0(recent, historical) ==
    LET change(m) ==
          LET recent_val     == Get(recent, m, RInt(0))
              historical_val == Get(historical, m, RInt(0))
          IN  IF ~RIsZero(historical_val)
              THEN RMul(RDiv(RSub(recent_val, historical_val), historical_val),
                        RInt(100))
              ELSE RInt(0)
        changes ==
          [k \in {ChangeKey(m) : m \in Range(key_metrics)} |->
            change(CHOOSE m \in Range(key_metrics) : ChangeKey(m) = k)]
        shifts ==
          [k \in {ShiftKey(c) : c \in CategorySet} |->
            LET c == CHOOSE c \in CategorySet : ShiftKey(c) = k
            IN  RSub(Get(recent, RatioKey(c), RInt(0)),
                     Get(historical, RatioKey(c), RInt(0)))]
    IN  shifts @@ changes

_calculate_change_features(recent, historical) ==
    LET change(m) ==
          LET recent_val     == Get(recent, m, RInt(0))
              historical_val == Get(historical, m, RInt(0))
          IN  IF ~RIsZero(historical_val)
              THEN RMul(RDiv(RSub(recent_val, historical_val), historical_val),
                        RInt(100))
              ELSE IF RGt(recent_val, RInt(0)) THEN RInt(100) ELSE RInt(0)
        changes ==
          [k \in {ChangeKey(m) : m \in Range(key_metrics)} |->
            change(CHOOSE m \in Range(key_metrics) : ChangeKey(m) = k)]
        shifts ==
          [k \in {ShiftKey(c) : c \in CategorySet} |->
            LET c == CHOOSE c \in CategorySet : ShiftKey(c) = k
            IN  RSub(Get(recent, RatioKey(c), RInt(0)),
                     Get(historical, RatioKey(c), RInt(0)))]
    IN  shifts @@ changes

_get_default_behavioral_features ==
    LET base ==
          [k \in PeriodKeys \cup {"data_availability"} |->
            IF k \in {"avg_interval", "min_interval"} THEN RInt(24)
            ELSE RInt(0)]
        cats ==
          [k \in {RatioKey(c) : c \in CategorySet}
                   \cup {ShiftKey(c) : c \in CategorySet} |-> RInt(0)]
        chg  == [k \in {ChangeKey(m) : m \in Range(key_metrics)} |-> RInt(0)]
    IN  chg @@ cats @@ base

\* variant: the recent window is a month long
recent_period_of_30_days(t) == t - 30 * Day

\* the first instant of the recent window
recent_period(t) == t - window_days * Day

recent_data(rows, t) ==
    SelectSeq(rows, LAMBDA e : e.timestamp >= recent_period(t))

historical_data(rows, t) ==
    SelectSeq(rows, LAMBDA e : e.timestamp < recent_period(t))

\* variant: without historical purchases the change features are computed
\* against an empty baseline
extract_behavioral_features_empty_baseline(rows, t) ==
    IF rows = <<>> THEN _get_default_behavioral_features
    ELSE IF recent_data(rows, t) = <<>> THEN _get_default_behavioral_features
    ELSE
      LET recent_features == _calculate_period_features(recent_data(rows, t))
          change_features ==
            IF historical_data(rows, t) # <<>>
            THEN _calculate_change_features(
                   recent_features,
                   _calculate_period_features(historical_data(rows, t)))
            ELSE _calculate_change_features(recent_features, <<>>)
      IN  ("data_availability" :>
              Rat(Len(historical_data(rows, t)), Len(rows)))
          @@ change_features @@ recent_features

\* a later entry of the dict display overrides an earlier one
extract_behavioral_features(rows, t) ==
    IF rows = <<>> THEN _get_default_behavioral_features
    ELSE IF recent_data(rows, t) = <<>> THEN _get_default_behavioral_features
    ELSE
      LET recent_features == _calculate_period_features(recent_data(rows, t))
          change_features ==
            IF historical_data(rows, t) # <<>>
            THEN _calculate_change_features(
                   recent_features,
                   _calculate_period_features(historical_data(rows, t)))
            ELSE <<>>
      IN  ("data_availability" :>
              Rat(Len(historical_data(rows, t)), Len(rows)))
          @@ change_features @@ recent_features

(***************************************************************************)
(* AnomalyDetector: rule scan, statistical scan, prioritisation, result    *)
(***************************************************************************)
Finding(ty, sev, conf, cat, val, t) ==
    [type |-> ty, severity |-> sev, confidence |-> conf,
     details |-> [category |-> cat, value |-> val], timestamp |-> t]

Opt(cond, x) == IF cond THEN <<x>> ELSE <<>>

RECURSIVE Concat(_)
Concat(ss) == IF ss = <<>> THEN <<>> ELSE Head(ss) \o Concat(Tail(ss))

\* the four weak signals of the composite rule
emotional_indicators(features) ==
    << RGt(Get(features, "impulse_score", RInt(0)), Rat(25, 100)),
       RGt(Get(features, "total_spent_change", RInt(0)), RInt(150)),
       RGt(Get(features, "snack_shift", RInt(0)), RInt(20)),
       RLt(Get(features, "min_interval", RInt(24)), RInt(2)) >>

\* variant: the divisor of the confidence used as the threshold
rule_spending_spike_threshold_300(features, t) ==
    LET spending_change == Get(features, "total_spent_change", RInt(0))
    IN  Opt(RGt(spending_change, RInt(300)),
            Finding("spending_spike", "warning",
                    RMin(RDiv(spending_change, RInt(300)), RInt(1)),
                    "-", spending_change, t))

\* rule 1: total spend grew by more than 200 %
rule_spending_spike(features, t) ==
    LET spending_change == Get(features, "total_spent_change", RInt(0))
    IN  Opt(RGt(spending_change, RInt(200)),
            Finding("spending_spike", "warning",
                    RMin(RDiv(spending_change, RInt(300)), RInt(1)),
                    "-", spending_change, t))

\* variant: a change of the purchase count by more than 50 % is reported
rule_frequency_change_threshold_50(features, t) ==
    LET frequency_change == Get(features, "total_purchases_change", RInt(0))
    IN  Opt(RGt(RAbs(frequency_change), RInt(50)),
            Finding("frequency_change", "warning",
                    RMin(RDiv(RAbs(frequency_change), RInt(200)), RInt(1)),
                    "-", frequency_change, t))

\* rule 2: the number of purchases changed by more than 150 %
rule_frequency_change(features, t) ==
    LET frequency_change == Get(features, "total_purchases_change", RInt(0))
    IN  Opt(RGt(RAbs(frequency_change), RInt(150)),
            Finding("frequency_change", "warning",
                    RMin(RDiv(RAbs(frequency_change), RInt(200)), RInt(1)),
                    "-", frequency_change, t))

\* variant: only a growing share is reported
rule_category_shift_increase_only(features, t) ==
    LET shift(c) == Get(features, ShiftKey(c), RInt(0))
    IN  Concat([i \in 1..Len(Categories) |->
            Opt(RGt(shift(Categories[i]), RInt(30)),
                Finding("category_shift", "info",
                        RMin(RDiv(RAbs(shift(Categories[i])), RInt(50)),
                             RInt(1)),
                        Categories[i], shift(Categories[i]), t))])

\* rule 3: one finding for each category whose share moved by more than 30
rule_category_shift(features, t) ==
    LET shift(c) == Get(features, ShiftKey(c), RInt(0))
    IN  Concat([i \in 1..Len(Categories) |->
            Opt(RGt(RAbs(shift(Categories[i])), RInt(30)),
                Finding("category_shift", "info",
                        RMin(RDiv(RAbs(shift(Categories[i])), RInt(50)),
                             RInt(1)),
                        Categories[i], shift(Categories[i]), t))])

\* variant: impulse buying is reported with severity alert
rule_impulse_buying_as_alert(features, t) ==
    LET impulse_score == Get(features, "impulse_score", RInt(0))
    IN  Opt(RGt(impulse_score, Rat(3, 10)),
            Finding("impulse_buying", "alert",
                    RMin(RDiv(impulse_score, Rat(1, 2)), RInt(1)),
                    "-", impulse_score, t))

\* rule 4: more than 30 % of the purchases within an hour of the previous one
rule_impulse_buying(features, t) ==
    LET impulse_score == Get(features, "impulse_score", RInt(0))
    IN  Opt(RGt(impulse_score, Rat(3, 10)),
            Finding("impulse_buying", "warning",
                    RMin(RDiv(impulse_score, Rat(1, 2)), RInt(1)),
                    "-", impulse_score, t))

\* rule 5: the variance of the hour of day changed by more than 100 %
rule_time_pattern_shift(features, t) ==
    LET time_variance_change == Get(features, "time_variance_change", RInt(0))
    IN  Opt(RGt(RAbs(time_variance_change), RInt(100)),
            Finding("time_pattern_shift", "info",
                    RMin(RDiv(RAbs(time_variance_change), RInt(150)), RInt(1)),
                    "-", RInt(0), t))

\* variant: three of the four weak signals are required
rule_emotional_shopping_three_signals(features, t) ==
    LET indicators == Count(emotional_indicators(features), LAMBDA b : b)
    IN  Opt(indicators >= 3,
            Finding("emotional_shopping", "alert", Rat(indicators, 4),
                    "-", RInt(0), t))

\* rule 6: at least two of the four weak signals
rule_emotional_shopping(features, t) ==
    LET indicators == Count(emotional_indicators(features), LAMBDA b : b)
    IN  Opt(indicators >= 2,
            Finding("emotional_shopping", "alert", Rat(indicators, 4),
                    "-", RInt(0), t))

_detect_rule_based_anomalies(features, t) ==
    rule_spending_spike(features, t)
    \o rule_frequency_change(features, t)
    \o rule_category_shift(features, t)
    \o rule_impulse_buying(features, t)
    \o rule_time_pattern_shift(features, t)
    \o rule_emotional_shopping(features, t)

\* what the fitted outlier model can answer for a vector: predict() and
\* decision_function() of the isolation forest
OutlierAnswers ==
    { [prediction |-> 1,  score |-> Rat(5, 100)],
      [prediction |-> -1, score |-> Rat(-15, 100)],
      [prediction |-> -1, score |-> Rat(-45, 100)] }

\* variant: the confidence is the scaled score, not clipped at 1
_detect_ml_based_anomalies_unclipped(answer, t) ==
    Opt(answer.prediction = -1,
        Finding("ml_detected_anomaly", "warning",
                RDiv(RAbs(answer.score), Rat(3, 10)),
                "-", answer.score, t))

_detect_ml_based_anomalies(answer, t) ==
    Opt(answer.prediction = -1,
        Finding("ml_detected_anomaly", "warning",
                RMin(RDiv(RAbs(answer.score), Rat(3, 10)), RInt(1)),
                "-", answer.score, t))

\* variant: the table has no entry for alert, which then ranks lowest
severity_order_without_alert(sev) ==
    CASE sev = "warning" -> 2
      [] sev = "info" -> 1
      [] OTHER -> 0

severity_order(sev) ==
    CASE sev = "alert" -> 3
      [] sev = "warning" -> 2
      [] sev = "info" -> 1
      [] OTHER -> 0

\* the sort key (severity rank, confidence), compared as Python tuples
KeyLt(a, b) ==
    \/ severity_order(a.severity) < severity_order(b.severity)
    \/ /\ severity_order(a.severity) = severity_order(b.severity)
       /\ RLt(a.confidence, b.confidence)

\* sorted(..., reverse=True) is stable: index x goes behind every index whose
\* key is not smaller than its own; lt is the set of pairs <<i, j>> such that
\* the key of element i is smaller than the key of element j
RECURSIVE InsertDesc(_, _, _)
InsertDesc(x, s, lt) ==
    IF s = <<>> THEN <<x>>
    ELSE IF <<Head(s), x>> \in lt THEN <<x>> \o s
    ELSE <<Head(s)>> \o InsertDesc(x, Tail(s), lt)

RECURSIVE SortIndicesDesc(_, _)
SortIndicesDesc(n, lt) ==
    IF n = 0 THEN <<>> ELSE InsertDesc(n, SortIndicesDesc(n - 1, lt), lt)

SortDesc(s, lt) ==
    LET order == SortIndicesDesc(Len(s), lt)
    IN  [i \in 1..Len(s) |-> s[order[i]]]

Take(s, n) == SubSeq(s, 1, IF Len(s) < n THEN Len(s) ELSE n)

\* variant: the sort key leaves out the confidence
_deduplicate_and_prioritize_severity_only(anomalies) ==
    IF anomalies = <<>> THEN <<>>
    ELSE Take(SortDesc(anomalies,
                       {p \in (1..Len(anomalies)) \X (1..Len(anomalies)) :
                          severity_order(anomalies[p[1]].severity)
                            < severity_order(anomalies[p[2]].severity)}), 5)

_deduplicate_and_prioritize(anomalies) ==
    IF anomalies = <<>> THEN <<>>
    ELSE Take(SortDesc(anomalies,
                       {p \in (1..Len(anomalies)) \X (1..Len(anomalies)) :
                          KeyLt(anomalies[p[1]], anomalies[p[2]])}), 5)

\* variant: a single warning does not raise the level
_calculate_risk_level_single_warning_low(anomalies) ==
    LET alert_count   == Count(anomalies, LAMBDA a : a.severity = "alert")
        warning_count == Count(anomalies, LAMBDA a : a.severity = "warning")
    IN  IF anomalies = <<>> THEN "low"
        ELSE IF alert_count > 0 THEN "high"
        ELSE IF warning_count >= 2 THEN "medium"
        ELSE "low"

_calculate_risk_level(anomalies) ==
    LET alert_count   == Count(anomalies, LAMBDA a : a.severity = "alert")
        warning_count == Count(anomalies, LAMBDA a : a.severity = "warning")
    IN  IF anomalies = <<>> THEN "low"
        ELSE IF alert_count > 0 THEN "high"
        ELSE IF warning_count >= 2 THEN "medium"
        ELSE IF warning_count > 0 THEN "medium"
        ELSE "low"

\* the summary sentence, as its kind and the number it embeds
_generate_summary(anomalies) ==
    LET alert_count   == Count(anomalies, LAMBDA a : a.severity = "alert")
        warning_count == Count(anomalies, LAMBDA a : a.severity = "warning")
    IN  IF anomalies = <<>> THEN <<"normal_pattern", 0>>
        ELSE IF alert_count > 0 THEN <<"attention_needed", alert_count>>
        ELSE IF warning_count > 0 THEN <<"changes_observed", warning_count>>
        ELSE <<"within_normal_range", 0>>

\* the recommendation sentences, by the finding type they are listed under
_generate_recommendations(anomalies) ==
    LET known == {"spending_spike", "impulse_buying", "emotional_shopping",
                  "category_shift", "frequency_change"}
    IN  {a.type : a \in {b \in Range(anomalies) : b.type \in known}}
        \cup (IF anomalies # <<>> THEN {"general"} ELSE {})

(***************************************************************************)
(* Persisted artifacts                                                     *)
(***************************************************************************)
\* a file of app/ml/models is missing, unreadable by joblib.load, or holds
\* a fitted estimator
ArtifactStates == {"absent", "corrupt", "fitted"}

AnomalyArtifacts == {"isolation_forest", "anomaly_scaler", "elliptic_envelope"}

PersonalityArtifacts == {"scaler", "kmeans", "pca"}

\* joblib.load raises for a missing and for an unreadable file
Loads(files, name) == files[name] = "fitted"

\* variant: the scaler is loaded inside the inner try/except as well
_load_anomaly_models_scaler_optional(files) ==
    Loads(files, "isolation_forest")

\* TRUE when _load_anomaly_models returns, FALSE when it raises; the
\* elliptic envelope is loaded inside its own try/except
_load_anomaly_models(files) ==
    Loads(files, "isolation_forest") /\ Loads(files, "anomaly_scaler")

\* TRUE when _load_models returns, FALSE when it raises
_load_models(files) ==
    Loads(files, "scaler") /\ Loads(files, "kmeans") /\ Loads(files, "pca")

(***************************************************************************)
(* AnomalyDetector.detect_anomalies and get_anomaly_alerts                 *)
(***************************************************************************)
\* what the scikit-learn objects do in one request: transform/predict raise
\* (fails), or the forest answers
ScanOutcomes ==
    { [kind |-> "scan", fails |-> f, answer |-> a] :
        f \in BOOLEAN, a \in OutlierAnswers }

\* the findings of the statistical scan; the bare except of detect_anomalies
\* turns a failed load and a failed scan into no finding
ml_based_anomalies(files, outcome, t) ==
    IF ~_load_anomaly_models(files) THEN <<>>
    ELSE IF outcome.fails THEN <<>>
    ELSE _detect_ml_based_anomalies(outcome.answer, t)

detect_anomalies(rows, t, files, outcome) ==
    LET features             == extract_behavioral_features(rows, t)
        rule_based_anomalies == _detect_rule_based_anomalies(features, t)
        all_anomalies        == rule_based_anomalies
                                \o ml_based_anomalies(files, outcome, t)
        unique_anomalies     == _deduplicate_and_prioritize(all_anomalies)
    IN  [anomalies_detected |-> Len(unique_anomalies) > 0,
         anomaly_count      |-> Len(unique_anomalies),
         anomalies          |-> unique_anomalies,
         risk_level         |-> _calculate_risk_level(unique_anomalies),
         summary            |-> _generate_summary(unique_anomalies),
         recommendations    |-> _generate_recommendations(unique_anomalies)]

\* the types that have an entry in self.anomaly_types
anomaly_types ==
    {"spending_spike", "category_shift", "frequency_change",
     "time_pattern_shift", "impulse_buying", "emotional_shopping"}

get_anomaly_alerts(rows, t, files, outcome) ==
    LET detection_result == detect_anomalies(rows, t, files, outcome)
        alert(anomaly) ==
          [type       |-> anomaly.severity,
           title      |-> IF anomaly.type \in anomaly_types THEN anomaly.type
                          ELSE "pattern_change_detected",
           message    |-> anomaly.details,
           confidence |-> anomaly.confidence,
           timestamp  |-> anomaly.timestamp]
    IN  IF ~detection_result.anomalies_detected THEN <<>>
        ELSE Map(detection_result.anomalies, alert)

(***************************************************************************)
(* PersonalityAnalyzer                                                     *)
(* Archetype names: learning_oriented = 학습지향형, fun_seeking =          *)
(* 즐거움추구형, creative_explorer = 창의적 탐험형, careful_chooser =      *)
(* 신중한 선택형, balanced = 균형잡힌 성향, insufficient_data = 데이터     *)
(* 부족; of the fitted clusters: active_explorer = 활동적 탐험형,          *)
(* creative_expressive = 창의적 표현형, stability_seeking = 안정추구형.    *)
(***************************************************************************)
Raise(err) == [raised |-> TRUE, error |-> err]

Return(v) == [raised |-> FALSE, value |-> v]

\* the methods the class PersonalityAnalyzer defines
PersonalityAnalyzerMethods ==
    {"__init__", "extract_features", "_get_default_features", "train_model",
     "predict_personality", "_basic_analysis", "_get_detailed_analysis",
     "_get_recommendations", "_get_basic_recommendations", "_save_models",
     "_load_models", "get_personality_insights", "_calculate_consistency",
     "_identify_growth_patterns", "_identify_risk_factors",
     "_get_development_suggestions"}

FrequencyKey(c) ==
    CASE c = "snack" -> "snack_frequency"
      [] c = "entertainment" -> "entertainment_frequency"
      [] c = "toy" -> "toy_frequency"
      [] c = "education" -> "education_frequency"
      [] c = "other" -> "other_frequency"

PersonalityBaseKeys ==
    {"avg_purchase_amount", "total_purchases", "diversity_score",
     "price_variance", "weekday_variance", "morning_ratio",
     "afternoon_ratio", "evening_ratio"}

_get_default_features ==
    [k \in PersonalityBaseKeys \cup {RatioKey(c) : c \in CategorySet}
             \cup {FrequencyKey(c) : c \in CategorySet} |-> RInt(0)]

\* the sizes of the groups of df.groupby('weekday')
weekday_sizes(rows) ==
    LET days == SetToSortedSeq({weekday(e) : e \in Range(rows)})
    IN  [i \in 1..Len(days) |-> Count(rows, LAMBDA e : weekday(e) = days[i])]

extract_features(rows) ==
    IF rows = <<>> THEN _get_default_features
    ELSE
      LET total_amount    == SumSeq(Map(rows, amount))
          total_purchases == Len(rows)
          of(c)           == SelectSeq(rows, LAMBDA e : e.type = c)
          between(lo, hi) ==
            Count(rows, LAMBDA e : hour(e) >= lo /\ hour(e) <= hi)
          base ==
            [k \in PersonalityBaseKeys |->
              CASE k = "avg_purchase_amount" ->
                       Rat(total_amount, total_purchases)
                [] k = "total_purchases"  -> RInt(total_purchases)
                [] k = "diversity_score"  ->
                       Rat(Cardinality({e.name : e \in Range(rows)}),
                           total_purchases)
                [] k = "price_variance"   ->
                       IF Len(rows) > 1
                       THEN Var(Map(rows, LAMBDA e : e.price)) ELSE RInt(0)
                [] k = "weekday_variance" ->
                       IF Len(rows) > 6 THEN Var(weekday_sizes(rows))
                       ELSE RInt(0)
                [] k = "morning_ratio"    ->
                       RMul(Rat(between(6, 11), total_purchases), RInt(100))
                [] k = "afternoon_ratio"  ->
                       RMul(Rat(between(12, 17), total_purchases), RInt(100))
                [] k = "evening_ratio"    ->
                       RMul(Rat(between(18, 23), total_purchases), RInt(100))]
          ratios ==
            [k \in {RatioKey(c) : c \in CategorySet} |->
              LET c == CHOOSE c \in CategorySet : RatioKey(c) = k
              IN  IF of(c) # <<>> /\ total_amount > 0
                  THEN RMul(Rat(SumSeq(Map(of(c), LAMBDA e : e.price)),
                                total_amount), RInt(100))
                  ELSE RInt(0)]
          freqs ==
            [k \in {FrequencyKey(c) : c \in CategorySet} |->
              LET c == CHOOSE c \in CategorySet : FrequencyKey(c) = k
              IN  RMul(Rat(Len(of(c)), total_purchases), RInt(100))]
      IN  freqs @@ ratios @@ base

\* variant: the first branch scales the ratio without the cap
basic_rule_learning_uncapped(features) ==
    LET education_ratio     == Get(features, "education_ratio", RInt(0))
        snack_ratio         == Get(features, "snack_ratio", RInt(0))
        toy_ratio           == Get(features, "toy_ratio", RInt(0))
        entertainment_ratio == Get(features, "entertainment_ratio", RInt(0))
        total_purchases     == Get(features, "total_purchases", RInt(0))
    IN  IF RGt(education_ratio, RInt(40))
        THEN [name |-> "learning_oriented", color |-> "#4F46E5",
              confidence |-> RDiv(education_ratio, RInt(50))]
        ELSE IF RGt(snack_ratio, RInt(50))
        THEN [name |-> "fun_seeking", color |-> "#F59E0B",
              confidence |-> RMin(Rat(8, 10), RDiv(snack_ratio, RInt(60)))]
        ELSE IF RGt(toy_ratio, RInt(30)) \/ RGt(entertainment_ratio, RInt(25))
        THEN [name |-> "creative_explorer", color |-> "#10B981",
              confidence |->
                RMin(Rat(8, 10),
                     RDiv(RMax(toy_ratio, entertainment_ratio), RInt(40)))]
        ELSE IF RLt(total_purchases, RInt(5))
        THEN [name |-> "careful_chooser", color |-> "#8B5CF6",
              confidence |-> Rat(7, 10)]
        ELSE [name |-> "balanced", color |-> "#06B6D4",
              confidence |-> Rat(75, 100)]

\* the if/elif cascade of _basic_analysis: archetype, colour and confidence
basic_rule(features) ==
    LET education_ratio     == Get(features, "education_ratio", RInt(0))
        snack_ratio         == Get(features, "snack_ratio", RInt(0))
        toy_ratio           == Get(features, "toy_ratio", RInt(0))
        entertainment_ratio == Get(features, "entertainment_ratio", RInt(0))
        total_purchases     == Get(features, "total_purchases", RInt(0))
    IN  IF RGt(education_ratio, RInt(40))
        THEN [name |-> "learning_oriented", color |-> "#4F46E5",
              confidence |-> RMin(Rat(9, 10), RDiv(education_ratio, RInt(50)))]
        ELSE IF RGt(snack_ratio, RInt(50))
        THEN [name |-> "fun_seeking", color |-> "#F59E0B",
              confidence |-> RMin(Rat(8, 10), RDiv(snack_ratio, RInt(60)))]
        ELSE IF RGt(toy_ratio, RInt(30)) \/ RGt(entertainment_ratio, RInt(25))
        THEN [name |-> "creative_explorer", color |-> "#10B981",
              confidence |->
                RMin(Rat(8, 10),
                     RDiv(RMax(toy_ratio, entertainment_ratio), RInt(40)))]
        ELSE IF RLt(total_purchases, RInt(5))
        THEN [name |-> "careful_chooser", color |-> "#8B5CF6",
              confidence |-> Rat(7, 10)]
        ELSE [name |-> "balanced", color |-> "#06B6D4",
              confidence |-> Rat(75, 100)]

\* the methods _basic_analysis calls on self while it builds the dict it
\* returns for a non-empty list, in evaluation order
basic_analysis_calls ==
    <<"_get_basic_recommendations", "_analyze_spending_pattern",
      "_analyze_time_pattern", "_calculate_age_appropriateness",
      "_calculate_growth_trend">>

_basic_analysis(rows) ==
    IF rows = <<>>
    THEN Return([personality_type |-> "insufficient_data",
                 confidence       |-> RInt(0),
                 color            |-> "#6B7280",
                 recommendations  |-> "need_more_data"])
    ELSE
      LET features    == extract_features(rows)
          personality == basic_rule(features)
      IN  IF \E i \in 1..Len(basic_analysis_calls) :
                basic_analysis_calls[i] \notin PersonalityAnalyzerMethods
          THEN Raise("AttributeError")
          ELSE Return([personality_type |-> personality.name,
                       confidence       |-> personality.confidence,
                       color            |-> personality.color,
                       recommendations  |-> personality.name])

\* self.personality_types: the archetype of each fitted cluster
personality_types ==
    [c \in 0..3 |->
      CASE c = 0 -> [name |-> "learning_oriented",   color |-> "#4F46E5"]
        [] c = 1 -> [name |-> "active_explorer",     color |-> "#059669"]
        [] c = 2 -> [name |-> "creative_expressive", color |-> "#DC2626"]
        [] c = 3 -> [name |-> "stability_seeking",   color |-> "#7C3AED"]]

\* what the fitted k-means can answer for a vector: the distances of
\* kmeans.transform to the four centres
Distances == {0, 3, 4}

ClusterAnswers ==
    { [kind |-> "kmeans", distances |-> d] : d \in [0..3 -> Distances] }

\* kmeans.predict: the nearest centre, the first one among equals
nearest(d) ==
    CHOOSE c \in DOMAIN d :
        /\ \A o \in DOMAIN d : d[c] <= d[o]
        /\ \A o \in DOMAIN d : d[o] = d[c] => c <= o

predict_personality(rows, files, answer) ==
    IF ~_load_models(files) THEN _basic_analysis(rows)
    ELSE
      LET cluster    == nearest(answer.distances)
          total      == SumSeq([i \in 1..4 |-> answer.distances[i - 1]])
          confidence == RSub(RInt(1), Rat(answer.distances[cluster], total))
      IN  Return([personality_type |-> personality_types[cluster].name,
                  confidence       |-> confidence,
                  color            |-> personality_types[cluster].color,
                  recommendations  |-> personality_types[cluster].name])

\* round(x, 2) of a non-negative number, a tie going to the even neighbour
round2(x) ==
    LET q == (100 * x[1]) \div x[2]
        r == (100 * x[1]) % x[2]
    IN  IF 2 * r > x[2] \/ (2 * r = x[2] /\ q % 2 = 1)
        THEN Rat(q + 1, 100) ELSE Rat(q, 100)

\* ChildPersonalityAnalyzer._calculate_confidence on the distances of the
\* vector to the centres of the fitted k-means
_calculate_confidence(d) ==
    LET distances    == [i \in 1..4 |-> d[i - 1]]
        min_distance == MinSeq(distances)
        max_distance == MaxSeq(distances)
    IN  IF max_distance = min_distance THEN RInt(1)
        ELSE round2(RSub(RInt(1), Rat(min_distance, max_distance)))

(***************************************************************************)
(* PurchaseAnalyzer: alert fusion                                          *)
(***************************************************************************)
\* the methods the class PurchaseAnalyzer defines
PurchaseAnalyzerMethods ==
    {"__init__", "get_weekly_metrics", "get_weekly_trend",
     "get_category_distribution", "get_hourly_pattern",
     "get_popular_products", "generate_alerts", "get_personality_insights",
     "get_anomaly_detection", "get_ml_enhanced_alerts",
     "_get_personality_based_alerts", "get_comprehensive_analysis"}

priority_order(ty) ==
    CASE ty = "alert" -> 4
      [] ty = "warning" -> 3
      [] ty = "success" -> 2
      [] ty = "info" -> 1
      [] OTHER -> 0

\* concatenation, stable sort by priority, cut to eight
fuse_alerts(basic_alerts, anomaly_alerts, personality_alerts) ==
    LET all_alerts == basic_alerts \o anomaly_alerts \o personality_alerts
        lt == {p \in (1..Len(all_alerts)) \X (1..Len(all_alerts)) :
                 priority_order(all_alerts[p[1]].type)
                   < priority_order(all_alerts[p[2]].type)}
    IN  Take(SortDesc(all_alerts, lt), 8)

\* src holds what the three sources hand back: basic, anomaly, personality;
\* the first statement calls self.generate_smart_alerts()
get_ml_enhanced_alerts(src) ==
    IF "generate_smart_alerts" \notin PurchaseAnalyzerMethods
    THEN Raise("AttributeError")
    ELSE Return(fuse_alerts(src.basic, src.anomaly, src.personality))

\* the methods get_comprehensive_analysis calls on self before its try
\* block, in order
comprehensive_analysis_calls ==
    <<"get_weekly_metrics", "get_weekly_trend", "get_category_analysis",
      "get_hourly_analysis", "get_popular_products">>

\* the try block takes the alerts of get_ml_enhanced_alerts; its handler
\* replaces the ML parts by defaults and calls self.generate_smart_alerts()
get_comprehensive_analysis(src) ==
    IF \E i \in 1..Len(comprehensive_analysis_calls) :
          comprehensive_analysis_calls[i] \notin PurchaseAnalyzerMethods
    THEN Raise("AttributeError")
    ELSE
      LET ml_alerts == get_ml_enhanced_alerts(src)
      IN  IF ~ml_alerts.raised
          THEN Return([alerts |-> ml_alerts.value, ml |-> "available"])
          ELSE IF "generate_smart_alerts" \notin PurchaseAnalyzerMethods
          THEN Raise("AttributeError")
          ELSE Return([alerts |-> src.basic, ml |-> "defaults"])

(***************************************************************************)
(* Training and persistence                                                *)
(* A population is represented by its number of subjects.  What a training *)
(* call does before it saves is one of: "return_none" (a bare return),     *)
(* "cannot_train" (an error dict is returned), "raise" (an estimator       *)
(* refuses the batch), "trained" (a result dict is returned, nothing is    *)
(* written) and "save" (the estimators are fitted, the save follows).      *)
(***************************************************************************)
\* KMeans(n_clusters=4) and PCA(n_components=3) of PersonalityAnalyzer
n_clusters == 4

n_components == 3

\* PersonalityAnalyzer.train_model up to the call of _save_models: only the
\* empty population returns early; PCA.fit_transform raises ValueError for
\* fewer samples than components, KMeans.fit for fewer samples than clusters
train_model(n) ==
    IF n = 0 THEN "return_none"
    ELSE IF n < n_components THEN "raise"
    ELSE IF n < n_clusters THEN "raise"
    ELSE "save"

\* AnomalyDetector.train_anomaly_model up to the call of
\* _save_anomaly_models; ragged: the vectors of the population differ in
\* length (18 and 30 keys), which np.array / fit_transform refuse
train_anomaly_model(n, ragged) ==
    IF n = 0 THEN "return_none"
    ELSE IF n < 5 THEN "return_none"
    ELSE IF ragged THEN "raise"
    ELSE "save"

\* ChildPersonalityAnalyzer.train_model: the model stays in memory
child_train_model(n) ==
    IF n < 5 THEN "cannot_train" ELSE "trained"

\* the files in the order _save_models and _load_models go through them
save_models_files == <<"scaler", "kmeans", "pca">>

load_models_files == <<"scaler", "kmeans", "pca">>

\* the same for _save_anomaly_models and _load_anomaly_models
save_anomaly_models_files ==
    <<"isolation_forest", "anomaly_scaler", "elliptic_envelope">>

load_anomaly_models_files ==
    <<"isolation_forest", "anomaly_scaler", "elliptic_envelope">>

\* a call in flight: pc 0 is its first statement, pc 1..3 the file it
\* writes or reads next, Done its return; mem is the training run of each
\* artifact it has loaded (NotLoaded before)
Done == Len(save_models_files) + 1

NotLoaded == -1

Pending == [raised |-> FALSE, value |-> "pending"]

Call(op, n, pc) ==
    [op |-> op, n |-> n, pc |-> pc, out |-> Pending,
     mem |-> [a \in AnomalyArtifacts \cup PersonalityArtifacts |-> NotLoaded]]

\* the training run of a training call; 0 is the run before both
Run(c) == IF c = "train_1" THEN 1 ELSE 2

\* the call c returns or raises
Finish(c, out) == [calls EXCEPT ![c].pc = Done, ![c].out = out]

\* what the first part of a training call leads to
AfterFit(c, outcome) ==
    CASE outcome = "save"         -> [calls EXCEPT ![c].pc = 1]
      [] outcome = "raise"        -> Finish(c, Raise("ValueError"))
      [] outcome = "return_none"  -> Finish(c, Return("None"))
      [] outcome = "cannot_train" -> Finish(c, Return("cannot_train"))
      [] outcome = "trained"      -> Finish(c, Return("trained"))

\* the call c has written or read the file at its position
Advance(c, out) ==
    IF calls[c].pc = 3 THEN Finish(c, out)
    ELSE [calls EXCEPT ![c].pc = @ + 1]

(***************************************************************************)
(* Inputs of the pure steps                                                *)
(***************************************************************************)
RECURSIVE SeqsUpTo(_, _)
SeqsUpTo(S, n) ==
    IF n = 0 THEN {<<>>}
    ELSE LET shorter == SeqsUpTo(S, n - 1)
         IN  shorter \cup {Append(q, x) : q \in shorter, x \in S}

Severities == {"alert", "warning", "info"}

Confidences == {Rat(1, 2), RInt(1)}

TypeOf(sev) ==
    CASE sev = "alert" -> "emotional_shopping"
      [] sev = "warning" -> "spending_spike"
      [] sev = "info" -> "category_shift"

FindingKinds ==
    { Finding(TypeOf(sev), sev, c, "-", RInt(0), Now0) :
        sev \in Severities, c \in Confidences }

FindingLists == SeqsUpTo(FindingKinds, MaxFindings)

\* alerts of the three sources; title tells them apart
SourceAlert(ty, source, i) == [type |-> ty, title |-> <<source, i>>]

SourceLists(types, source, n) ==
    { [i \in 1..Len(q) |-> SourceAlert(q[i], source, i)] :
        q \in SeqsUpTo(types, n) }

\* an anomaly source list is already ordered by severity and holds at most 5
AnomalySourceLists ==
    { l \in SourceLists(Severities, "anomaly", 5) :
        \A i \in 1..(Len(l) - 1) :
            priority_order(l[i].type) >= priority_order(l[i + 1].type) }

FusionInputs ==
    { [kind |-> "sources", basic |-> b, anomaly |-> a, personality |-> p] :
        b \in SourceLists({"warning", "success", "info"}, "basic",
                          MaxSourceAlerts),
        a \in AnomalySourceLists,
        p \in SourceLists({"info"}, "personality", 1) }

(***************************************************************************)
(* State machine                                                           *)
(***************************************************************************)
NoArg == [kind |-> "none"]

NoRet == [op |-> "none"]

NoFiles(names) == [a \in names |-> "absent"]

\* no training run is tracked, no concurrent call is in flight
NoOrigin == <<>>

NoCalls == <<>>

\* a request for one subject: the event list, the clock and the artifacts on
\* disk are what the request finds
Init ==
    /\ df \in EventLists
    /\ now \in Clock
    /\ afiles \in [AnomalyArtifacts -> ArtifactStates]
    /\ pfiles = NoFiles(PersonalityArtifacts)
    /\ arg = NoArg
    /\ origin = NoOrigin
    /\ calls = NoCalls
    /\ ret = NoRet

ExtractBehavioralFeatures ==
    /\ arg' = NoArg
    /\ ret' = [op  |-> "extract_behavioral_features",
               out |-> Return(extract_behavioral_features(df, now))]
    /\ UNCHANGED <<df, now, afiles, pfiles, origin, calls>>

\* the scan outcome matters only when the artifacts load
ScanChoices(files) ==
    IF _load_anomaly_models(files)
    THEN { o \in ScanOutcomes :
             o.fails => o.answer = [prediction |-> 1, score |-> Rat(5, 100)] }
    ELSE { NoArg }

DetectAnomalies ==
    \E o \in ScanChoices(afiles) :
        /\ arg' = o
        /\ ret' = [op  |-> "detect_anomalies",
                   out |-> Return(detect_anomalies(df, now, afiles, o))]
        /\ UNCHANGED <<df, now, afiles, pfiles, origin, calls>>

GetAnomalyAlerts ==
    \E o \in ScanChoices(afiles) :
        /\ arg' = o
        /\ ret' = [op  |-> "get_anomaly_alerts",
                   out |-> Return(get_anomaly_alerts(df, now, afiles, o))]
        /\ UNCHANGED <<df, now, afiles, pfiles, origin, calls>>

\* the rule scan on the features of the event list
DetectRuleBasedAnomalies ==
    /\ arg' = NoArg
    /\ ret' = [op  |-> "_detect_rule_based_anomalies",
               out |-> Return(_detect_rule_based_anomalies(
                                extract_behavioral_features(df, now), now))]
    /\ UNCHANGED <<df, now, afiles, pfiles, origin, calls>>

Next ==
    \/ ExtractBehavioralFeatures
    \/ DetectRuleBasedAnomalies
    \/ DetectAnomalies
    \/ GetAnomalyAlerts

Spec == Init /\ [][Next]_vars

\* the event lists of at most MaxWideEvents rows
WideEventLists ==
    { [i \in 1..Cardinality(S) |-> Catalogue[SetToSortedSeq(S)[i]]] :
        S \in {T \in SUBSET (1..Len(Catalogue)) :
                 Cardinality(T) <= MaxWideEvents} }

\* a request for a subject with a longer history: same operations as above
InitWide ==
    /\ df \in WideEventLists
    /\ now = Now0
    /\ afiles \in {NoFiles(AnomalyArtifacts),
                   [a \in AnomalyArtifacts |-> "fitted"]}
    /\ pfiles = NoFiles(PersonalityArtifacts)
    /\ arg = NoArg
    /\ origin = NoOrigin
    /\ calls = NoCalls
    /\ ret = NoRet

SpecWide == InitWide /\ [][Next]_vars

\* personality inference
InitPersonality ==
    /\ df \in EventLists
    /\ now = Now0
    /\ afiles = NoFiles(AnomalyArtifacts)
    /\ pfiles \in [PersonalityArtifacts -> ArtifactStates]
    /\ arg = NoArg
    /\ origin = NoOrigin
    /\ calls = NoCalls
    /\ ret = NoRet

ClusterChoices(files) ==
    IF _load_models(files) THEN ClusterAnswers ELSE { NoArg }

PredictPersonality ==
    \E a \in ClusterChoices(pfiles) :
        /\ arg' = a
        /\ ret' = [op  |-> "predict_personality",
                   out |-> predict_personality(df, pfiles, a)]
        /\ UNCHANGED <<df, now, afiles, pfiles, origin, calls>>

ExtractFeatures ==
    /\ arg' = NoArg
    /\ ret' = [op  |-> "extract_features",
               out |-> Return(extract_features(df))]
    /\ UNCHANGED <<df, now, afiles, pfiles, origin, calls>>

NextPersonality == PredictPersonality \/ ExtractFeatures

SpecPersonality == InitPersonality /\ [][NextPersonality]_vars

\* the rule-based fallback on subjects with a longer history; the last row
\* is a snack bought once, so that the snack share can pass one half
FallbackCatalogue ==
    Catalogue \o << Ev("snack", "jelly", 11, 1, 17 * Day + 36000) >>

FallbackEventLists ==
    { [i \in 1..Cardinality(S) |-> FallbackCatalogue[SetToSortedSeq(S)[i]]] :
        S \in {T \in SUBSET (1..Len(FallbackCatalogue)) :
                 Cardinality(T) <= MaxWideEvents} }

InitFallback ==
    /\ df \in FallbackEventLists
    /\ now = Now0
    /\ afiles = NoFiles(AnomalyArtifacts)
    /\ pfiles = NoFiles(PersonalityArtifacts)
    /\ arg = NoArg
    /\ origin = NoOrigin
    /\ calls = NoCalls
    /\ ret = NoRet

\* the step of _basic_analysis that picks the archetype and assigns the
\* confidence, reached for a non-empty event list
BasicAnalysisCascade ==
    /\ df # <<>>
    /\ arg' = NoArg
    /\ ret' = [op  |-> "_basic_analysis.cascade",
               out |-> Return(basic_rule(extract_features(df)))]
    /\ UNCHANGED <<df, now, afiles, pfiles, origin, calls>>

NextFallback == BasicAnalysisCascade \/ PredictPersonality \/ ExtractFeatures

SpecFallback == InitFallback /\ [][NextFallback]_vars

\* the prioritisation and risk steps on every list of merged findings
InitPrioritize ==
    /\ df = <<>>
    /\ now = Now0
    /\ afiles = NoFiles(AnomalyArtifacts)
    /\ pfiles = NoFiles(PersonalityArtifacts)
    /\ arg \in { [kind |-> "findings", anomalies |-> l] : l \in FindingLists }
    /\ origin = NoOrigin
    /\ calls = NoCalls
    /\ ret = NoRet

DeduplicateAndPrioritize ==
    /\ arg.kind = "findings"
    /\ ret' = [op  |-> "_deduplicate_and_prioritize",
               out |-> Return(_deduplicate_and_prioritize(arg.anomalies))]
    /\ UNCHANGED <<df, now, afiles, pfiles, origin, calls, arg>>

CalculateRiskLevel ==
    /\ arg.kind = "findings"
    /\ ret' = [op  |-> "_calculate_risk_level",
               out |-> Return(_calculate_risk_level(arg.anomalies))]
    /\ UNCHANGED <<df, now, afiles, pfiles, origin, calls, arg>>

NextPrioritize == DeduplicateAndPrioritize \/ CalculateRiskLevel

SpecPrioritize == InitPrioritize /\ [][NextPrioritize]_vars

\* the fusion step on every combination of source lists
InitFusion ==
    /\ df = <<>>
    /\ now = Now0
    /\ afiles = NoFiles(AnomalyArtifacts)
    /\ pfiles = NoFiles(PersonalityArtifacts)
    /\ arg \in FusionInputs
    /\ origin = NoOrigin
    /\ calls = NoCalls
    /\ ret = NoRet

GetMlEnhancedAlerts ==
    /\ arg.kind = "sources"
    /\ ret' = [op  |-> "get_ml_enhanced_alerts",
               out |-> get_ml_enhanced_alerts(arg)]
    /\ UNCHANGED <<df, now, afiles, pfiles, origin, calls, arg>>

GetComprehensiveAnalysis ==
    /\ arg.kind = "sources"
    /\ ret' = [op  |-> "get_comprehensive_analysis",
               out |-> get_comprehensive_analysis(arg)]
    /\ UNCHANGED <<df, now, afiles, pfiles, origin, calls, arg>>

NextFusion == GetMlEnhancedAlerts \/ GetComprehensiveAnalysis

SpecFusion == InitFusion /\ [][NextFusion]_vars

\* training and inference calls of one analyzer class running concurrently:
\* two training calls and one inference call, on a model directory that
\* holds the artifacts of an earlier run or nothing
Classes == {"PersonalityAnalyzer", "AnomalyDetector", "ChildPersonalityAnalyzer"}

ConcurrentCalls(class, n1, n2) ==
    CASE class = "PersonalityAnalyzer" ->
           [c \in {"train_1", "train_2", "infer"} |->
             CASE c = "train_1" -> Call("train_model", n1, 0)
               [] c = "train_2" -> Call("train_model", n2, 0)
               [] c = "infer"   -> Call("predict_personality", 0, 1)]
      [] class = "AnomalyDetector" ->
           [c \in {"train_1", "train_2", "infer"} |->
             CASE c = "train_1" -> Call("train_anomaly_model", n1, 0)
               [] c = "train_2" -> Call("train_anomaly_model", n2, 0)
               [] c = "infer"   -> Call("detect_anomalies", 0, 1)]
      [] class = "ChildPersonalityAnalyzer" ->
           [c \in {"train_1"} |-> Call("child_train_model", n1, 0)]

InitTraining ==
    /\ df = <<>>
    /\ now = Now0
    /\ arg = NoArg
    /\ ret = NoRet
    /\ origin = [a \in AnomalyArtifacts \cup PersonalityArtifacts |-> 0]
    /\ \E class \in Classes, earlier \in BOOLEAN, n1, n2 \in 0..MaxSubjects :
         /\ class = "ChildPersonalityAnalyzer" => (~earlier /\ n2 = 0)
         /\ calls = ConcurrentCalls(class, n1, n2)
         /\ pfiles = [a \in PersonalityArtifacts |->
                        IF class = "PersonalityAnalyzer" /\ earlier
                        THEN "fitted" ELSE "absent"]
         /\ afiles = [a \in AnomalyArtifacts |->
                        IF class = "AnomalyDetector" /\ earlier
                        THEN "fitted" ELSE "absent"]

\* PersonalityAnalyzer.train_model up to the save
TrainModel(c) ==
    /\ calls[c].op = "train_model"
    /\ calls[c].pc = 0
    /\ calls' = AfterFit(c, train_model(calls[c].n))
    /\ UNCHANGED <<df, now, afiles, pfiles, origin, arg, ret>>

\* one joblib.dump of _save_models; train_model returns after the third
SaveModels(c) ==
    /\ calls[c].op = "train_model"
    /\ calls[c].pc \in 1..3
    /\ pfiles' = [pfiles EXCEPT ![save_models_files[calls[c].pc]] = "fitted"]
    /\ origin' = [origin EXCEPT ![save_models_files[calls[c].pc]] = Run(c)]
    /\ calls' = Advance(c, Return("None"))
    /\ UNCHANGED <<df, now, afiles, arg, ret>>

\* variant: an inference call that finds no readable file leaves a
\* placeholder file behind
LoadModels_writing_placeholder(c) ==
    /\ calls[c].op = "predict_personality"
    /\ calls[c].pc \in 1..3
    /\ LET a == load_models_files[calls[c].pc]
       IN  IF Loads(pfiles, a)
           THEN /\ calls' = [Advance(c, Return("model")) EXCEPT
                               ![c].mem[a] = origin[a]]
                /\ pfiles' = pfiles
           ELSE /\ calls' = Finish(c, Return("fallback"))
                /\ pfiles' = [pfiles EXCEPT ![a] = "corrupt"]
    /\ UNCHANGED <<df, now, afiles, origin, arg, ret>>

\* one joblib.load of _load_models inside predict_personality: a file that
\* does not load sends the call to _basic_analysis, the third file that
\* loads to the prediction with the loaded estimators
LoadModels(c) ==
    /\ calls[c].op = "predict_personality"
    /\ calls[c].pc \in 1..3
    /\ LET a == load_models_files[calls[c].pc]
       IN  IF Loads(pfiles, a)
           THEN calls' = [Advance(c, Return("model")) EXCEPT
                            ![c].mem[a] = origin[a]]
           ELSE calls' = Finish(c, Return("fallback"))
    /\ UNCHANGED <<df, now, afiles, pfiles, origin, arg, ret>>

\* AnomalyDetector.train_anomaly_model up to the save
TrainAnomalyModel(c) ==
    /\ calls[c].op = "train_anomaly_model"
    /\ calls[c].pc = 0
    /\ \E ragged \in BOOLEAN :
         calls' = AfterFit(c, train_anomaly_model(calls[c].n, ragged))
    /\ UNCHANGED <<df, now, afiles, pfiles, origin, arg, ret>>

\* one joblib.dump of _save_anomaly_models
SaveAnomalyModels(c) ==
    /\ calls[c].op = "train_anomaly_model"
    /\ calls[c].pc \in 1..3
    /\ afiles' = [afiles EXCEPT
                    ![save_anomaly_models_files[calls[c].pc]] = "fitted"]
    /\ origin' = [origin EXCEPT
                    ![save_anomaly_models_files[calls[c].pc]] = Run(c)]
    /\ calls' = Advance(c, Return("None"))
    /\ UNCHANGED <<df, now, pfiles, arg, ret>>

\* one joblib.load of _load_anomaly_models inside detect_anomalies: without
\* the forest or the scaler the call goes on with the rules only, the
\* elliptic envelope is optional
LoadAnomalyModels(c) ==
    /\ calls[c].op = "detect_anomalies"
    /\ calls[c].pc \in 1..3
    /\ LET a == load_anomaly_models_files[calls[c].pc]
       IN  IF Loads(afiles, a)
           THEN calls' = [Advance(c, Return("model")) EXCEPT
                            ![c].mem[a] = origin[a]]
           ELSE IF a = "elliptic_envelope"
           THEN calls' = Advance(c, Return("model"))
           ELSE calls' = Finish(c, Return("rules_only"))
    /\ UNCHANGED <<df, now, afiles, pfiles, origin, arg, ret>>

\* ChildPersonalityAnalyzer.train_model
ChildTrainModel(c) ==
    /\ calls[c].op = "child_train_model"
    /\ calls[c].pc = 0
    /\ calls' = AfterFit(c, child_train_model(calls[c].n))
    /\ UNCHANGED <<df, now, afiles, pfiles, origin, arg, ret>>

NextTraining ==
    \/ \E c \in DOMAIN calls : TrainModel(c)
    \/ \E c \in DOMAIN calls : SaveModels(c)
    \/ \E c \in DOMAIN calls : LoadModels(c)
    \/ \E c \in DOMAIN calls : TrainAnomalyModel(c)
    \/ \E c \in DOMAIN calls : SaveAnomalyModels(c)
    \/ \E c \in DOMAIN calls : LoadAnomalyModels(c)
    \/ \E c \in DOMAIN calls : ChildTrainModel(c)

SpecTraining == InitTraining /\ [][NextTraining]_vars

\* repeated inference for one subject: the event list and the artifact
\* files stay as they are, the wall clock goes on between the calls
InitRepeated ==
    /\ df \in {l \in EventLists : Len(l) <= 2}
    /\ now = Now0
    /\ afiles \in {NoFiles(AnomalyArtifacts),
                   [a \in AnomalyArtifacts |-> "fitted"]}
    /\ pfiles \in {NoFiles(PersonalityArtifacts),
                   [a \in PersonalityArtifacts |-> "fitted"]}
    /\ origin = NoOrigin
    /\ calls = NoCalls
    /\ arg = NoArg
    /\ ret = NoRet

\* detect_anomalies reads datetime.now() when it is served
DetectAnomaliesLater ==
    \E t \in Clock, o \in ScanChoices(afiles) :
        /\ t >= now
        /\ now' = t
        /\ arg' = o
        /\ ret' = [op  |-> "detect_anomalies",
                   out |-> Return(detect_anomalies(df, t, afiles, o))]
        /\ UNCHANGED <<df, afiles, pfiles, origin, calls>>

PredictPersonalityLater ==
    \E t \in Clock, a \in ClusterChoices(pfiles) :
        /\ t >= now
        /\ now' = t
        /\ arg' = a
        /\ ret' = [op  |-> "predict_personality",
                   out |-> predict_personality(df, pfiles, a)]
        /\ UNCHANGED <<df, afiles, pfiles, origin, calls>>

NextRepeated == DetectAnomaliesLater \/ PredictPersonalityLater

SpecRepeated == InitRepeated /\ [][NextRepeated]_vars

\* the two confidence computations on every answer of a fitted k-means
InitConfidence ==
    /\ df \in {l \in EventLists : Len(l) <= 1}
    /\ now = Now0
    /\ afiles = NoFiles(AnomalyArtifacts)
    /\ pfiles = [a \in PersonalityArtifacts |-> "fitted"]
    /\ origin = NoOrigin
    /\ calls = NoCalls
    /\ arg \in ClusterAnswers
    /\ ret = NoRet

\* PersonalityAnalyzer.predict_personality with the persisted model
PredictFromDistances ==
    /\ arg.kind = "kmeans"
    /\ ret' = [op  |-> "predict_personality",
               out |-> predict_personality(df, pfiles, arg)]
    /\ UNCHANGED <<df, now, afiles, pfiles, origin, calls, arg>>

\* the confidence of ChildPersonalityAnalyzer.predict_personality, whose
\* model lives in memory
CalculateConfidence ==
    /\ arg.kind = "kmeans"
    /\ ret' = [op  |-> "_calculate_confidence",
               out |-> Return(_calculate_confidence(arg.distances))]
    /\ UNCHANGED <<df, now, afiles, pfiles, origin, calls, arg>>

NextConfidence == PredictFromDistances \/ CalculateConfidence

SpecConfidence == InitConfidence /\ [][NextConfidence]_vars

(***************************************************************************)
(* Properties                                                              *)
(***************************************************************************)
Min(a, b) == IF a < b THEN a ELSE b

Called(op) == ret.op = op

\* the rank of a severity as the prioritisation is described
Rank(sev) ==
    CASE sev = "alert" -> 3 [] sev = "warning" -> 2 [] sev = "info" -> 1

\* a may stand before b: higher severity, or the same and no less confident
MayPrecede(a, b) ==
    \/ Rank(a.severity) > Rank(b.severity)
    \/ Rank(a.severity) = Rank(b.severity) /\ RGe(a.confidence, b.confidence)

Occurrences(s, x) == Cardinality({i \in 1..Len(s) : s[i] = x})

\* total spend of the recent and of the historical window of the event list
RecentSpend == SumSeq(Map(recent_data(df, now), amount))

HistoricalSpend == SumSeq(Map(historical_data(df, now), amount))

HasFinding(findings, ty) == \E i \in 1..Len(findings) : findings[i].type = ty

\* C1: the prioritisation step returns min(n, 5) findings, ordered by
\* severity rank descending and, within a severity, by confidence
\* descending; they are findings of the input, and no dropped finding would
\* have to stand before a retained one.
C1_PrioritizeTopFive ==
    Called("_deduplicate_and_prioritize") =>
        LET in  == arg.anomalies
            out == ret.out.value
        IN  /\ ~ret.out.raised
            /\ Len(out) = Min(Len(in), 5)
            /\ \A i, j \in 1..Len(out) : i < j => MayPrecede(out[i], out[j])
            /\ \A x \in Range(in) \cup Range(out) :
                 /\ Occurrences(out, x) <= Occurrences(in, x)
                 /\ Occurrences(out, x) < Occurrences(in, x) =>
                      \A k \in 1..Len(out) : MayPrecede(out[k], x)

\* six findings, lowest severity first and highest last, have been cut to 5
C1_Witness ==
    /\ Called("_deduplicate_and_prioritize")
    /\ Len(arg.anomalies) = 6
    /\ arg.anomalies[1].severity = "info"
    /\ arg.anomalies[2].confidence # arg.anomalies[3].confidence
    /\ arg.anomalies[2].severity = "warning"
    /\ arg.anomalies[3].severity = "warning"
    /\ arg.anomalies[6].severity = "alert"
    /\ Len(ret.out.value) = 5
    /\ ret.out.value[1].severity = "alert"

\* C2: the risk level of a detection result is 'high' if a retained finding
\* is an alert, otherwise 'medium' if one or several are warnings, otherwise
\* 'low' (also for no finding).
C2_RiskLevelFromRetained ==
    Called("detect_anomalies") =>
        LET retained == ret.out.value.anomalies
            has(sev) == \E i \in 1..Len(retained) : retained[i].severity = sev
        IN  ret.out.value.risk_level =
              (IF has("alert") THEN "high"
               ELSE IF has("warning") THEN "medium"
               ELSE "low")

\* a result whose only warning stands without an alert is 'medium'
C2_Witness ==
    /\ Called("detect_anomalies")
    /\ Count(ret.out.value.anomalies, LAMBDA a : a.severity = "warning") = 1
    /\ Count(ret.out.value.anomalies, LAMBDA a : a.severity = "alert") = 0
    /\ ret.out.value.risk_level = "medium"

\* C3: the alert fusion returns exactly min(n, 8) alerts of the n alerts of
\* its three sources, every alert before every warning before every info.
C3_FusionCapAndOrder ==
    Called("get_ml_enhanced_alerts") =>
        /\ ~ret.out.raised
        /\ LET n   == Len(arg.basic) + Len(arg.anomaly) + Len(arg.personality)
               out == ret.out.value
           IN  /\ Len(out) = Min(n, 8)
               /\ \A i, j \in 1..Len(out) : i < j =>
                    /\ out[j].type = "alert" =>
                         out[i].type \notin {"warning", "info"}
                    /\ out[j].type = "warning" => out[i].type # "info"

\* C4 as stated: a recent total of 250 % of the historical total makes the
\* rule scan emit spending_spike, warning, with confidence in [0.8, 1].
C4_SpikeAt250PercentOfBaseline ==
    ( /\ Called("_detect_rule_based_anomalies")
      /\ HistoricalSpend > 0
      /\ RecentSpend * 100 = 250 * HistoricalSpend )
    => \E i \in 1..Len(ret.out.value) :
          /\ ret.out.value[i].type = "spending_spike"
          /\ ret.out.value[i].severity = "warning"
          /\ RGe(ret.out.value[i].confidence, Rat(8, 10))
          /\ RLe(ret.out.value[i].confidence, RInt(1))

\* C4 amended: a recent total that exceeds a non-zero historical total by
\* 250 % or more (at least 350 % of it) makes the rule scan emit
\* spending_spike, warning, with confidence in [0.8, 1].
C4_SpikeAtIncreaseOf250Percent ==
    ( /\ Called("_detect_rule_based_anomalies")
      /\ HistoricalSpend > 0
      /\ RecentSpend * 100 >= 350 * HistoricalSpend )
    => \E i \in 1..Len(ret.out.value) :
          /\ ret.out.value[i].type = "spending_spike"
          /\ ret.out.value[i].severity = "warning"
          /\ RGe(ret.out.value[i].confidence, Rat(8, 10))
          /\ RLe(ret.out.value[i].confidence, RInt(1))

\* the rule scan ran on a recent total of exactly 350 % of the baseline
C4_Witness ==
    /\ Called("_detect_rule_based_anomalies")
    /\ HistoricalSpend > 0
    /\ RecentSpend * 100 = 350 * HistoricalSpend
    /\ HasFinding(ret.out.value, "spending_spike")

\* the archetypes of the rule-based fallback path
FallbackArchetypes ==
    {"insufficient_data", "learning_oriented", "fun_seeking",
     "creative_explorer", "careful_chooser", "balanced"}

\* C5: with a missing or corrupt persisted model predict_personality does
\* not raise; it returns a well-formed profile of the fallback path.
C5_FallbackNeverRaises ==
    ( /\ Called("predict_personality")
      /\ \E a \in PersonalityArtifacts : pfiles[a] \in {"absent", "corrupt"} )
    => /\ ~ret.out.raised
       /\ ret.out.value.personality_type \in FallbackArchetypes
       /\ RGe(ret.out.value.confidence, RInt(0))
       /\ RLe(ret.out.value.confidence, RInt(1))

\* the share of the education rows in the total amount, as the personality
\* features define it, is above 40 %
EducationShareAbove40 ==
    LET rows == SelectSeq(df, LAMBDA e : e.type = "education")
    IN  /\ df # <<>>
        /\ SumSeq(Map(rows, LAMBDA e : e.price)) * 100
             > 40 * SumSeq(Map(df, amount))

\* C6: with no persisted model, a non-empty list with an education ratio
\* above 40 % gets the learning-oriented archetype, confidence above 0.8.
C6_LearningOrientedFallback ==
    ( /\ Called("predict_personality")
      /\ \A a \in PersonalityArtifacts : pfiles[a] = "absent"
      /\ EducationShareAbove40 )
    => /\ ~ret.out.raised
       /\ ret.out.value.personality_type = "learning_oriented"
       /\ RGt(ret.out.value.confidence, Rat(8, 10))

\* C7: an empty event list gets the insufficient-data profile with
\* confidence 0, whether or not the persisted model loads.
C7_EmptyListInsufficientData ==
    (Called("predict_personality") /\ df = <<>>)
    => /\ ~ret.out.raised
       /\ ret.out.value.personality_type = "insufficient_data"
       /\ ret.out.value.confidence = RInt(0)

\* C8: the result of detect_anomalies for a non-empty list on which no
\* finding fires differs from its result for the empty list.
C8_EmptyListDistinctFromNoFinding ==
    ( /\ Called("detect_anomalies")
      /\ df # <<>>
      /\ ret.out.value.anomalies = <<>> )
    => ret.out.value # detect_anomalies(<<>>, now, afiles, arg)

C10_FixedKeySet ==
    Called("extract_behavioral_features") =>
        DOMAIN ret.out.value = DOMAIN _get_default_behavioral_features

\* the ratio-type features of the personality vector
PersonalityRatioKeys ==
    {RatioKey(c) : c \in CategorySet} \cup {FrequencyKey(c) : c \in CategorySet}
      \cup {"morning_ratio", "afternoon_ratio", "evening_ratio"}

\* C11: every ratio-type feature of the personality vector of an event list
\* with non-negative prices and quantities lies in [0, 100].
C11_RatioFeaturesWithinRange ==
    Called("extract_features") =>
        \A k \in PersonalityRatioKeys :
            /\ RGe(ret.out.value[k], RInt(0))
            /\ RLe(ret.out.value[k], RInt(100))

\* the features of the recent and of the historical window of the event list
RecentFeatures == _calculate_period_features(recent_data(df, now))

HistoricalFeatures == _calculate_period_features(historical_data(df, now))

\* both windows of the event list hold purchases
BothWindows ==
    recent_data(df, now) # <<>> /\ historical_data(df, now) # <<>>

\* C12: with purchases in both windows, the change feature of each compared
\* metric is (recent - historical) / historical * 100 for a non-zero
\* historical value, 100 for a zero historical and a positive recent value,
\* 0 when both are zero; each category shift is the recent ratio minus the
\* historical ratio.
C12_ChangeAndShiftFormula ==
    (Called("extract_behavioral_features") /\ BothWindows) =>
        /\ \A i \in 1..Len(key_metrics) :
             LET r == RecentFeatures[key_metrics[i]]
                 h == HistoricalFeatures[key_metrics[i]]
                 c == ret.out.value[ChangeKey(key_metrics[i])]
             IN  /\ ~RIsZero(h) =>
                      c = RDiv(RMul(RSub(r, h), RInt(100)), h)
                 /\ (RIsZero(h) /\ RGt(r, RInt(0))) => c = RInt(100)
                 /\ (RIsZero(h) /\ RIsZero(r)) => c = RInt(0)
        /\ \A cat \in CategorySet :
             ret.out.value[ShiftKey(cat)] =
                 RSub(RecentFeatures[RatioKey(cat)],
                      HistoricalFeatures[RatioKey(cat)])

\* the historical window spent nothing and the recent one something (change
\* 100), both have an hour variance of 0 (change 0), and the purchase count
\* has a non-zero baseline
C12_Witness ==
    /\ Called("extract_behavioral_features")
    /\ BothWindows
    /\ HistoricalSpend = 0
    /\ RecentSpend > 0
    /\ ret.out.value["total_spent_change"] = RInt(100)
    /\ RIsZero(RecentFeatures["time_variance"])
    /\ RIsZero(HistoricalFeatures["time_variance"])
    /\ ret.out.value["time_variance_change"] = RInt(0)
    /\ ret.out.value["total_purchases_change"] = RInt(100)
    /\ ret.out.value["toy_shift"] = RInt(-100)

Readers == {c \in DOMAIN calls : calls[c].op \in {"predict_personality", "detect_anomalies"}}

Trainers == DOMAIN calls \ Readers

\* the artifacts an inference call of the class works with
ModelArtifacts(op) ==
    IF op = "predict_personality" THEN PersonalityArtifacts
    ELSE {"isolation_forest", "anomaly_scaler"}

\* C13: the artifacts an inference call has loaded while training calls
\* save come from one training run.
C13_ReaderSeesOneRun ==
    \A c \in Readers :
        ( /\ calls[c].pc = Done
          /\ calls[c].out = Return("model") )
        => \A a, b \in ModelArtifacts(calls[c].op) :
              calls[c].mem[a] = calls[c].mem[b]

\* the artifact files of the class whose calls are in flight
PersistedArtifacts ==
    IF \E c \in Trainers : calls[c].op = "train_model"
    THEN {a \in PersonalityArtifacts : Loads(pfiles, a)}
    ELSE IF \E c \in Trainers : calls[c].op = "train_anomaly_model"
    THEN {a \in AnomalyArtifacts : Loads(afiles, a)}
    ELSE {}

\* C14: when the two concurrent training calls have finished, the persisted
\* artifacts are those of one training run.
C14_PersistedSetOfOneRun ==
    (\A c \in Trainers : calls[c].pc = Done)
    => \A a, b \in PersistedArtifacts : origin[a] = origin[b]

\* C15: a training call on fewer than 5 subjects does not go on to fit and
\* save, writes no artifact, and returns a 'cannot train' result.
C15_UndersizedPopulationRefused ==
    \A c \in Trainers :
        calls[c].n < 5 =>
            /\ calls[c].pc \in {0, Done}
            /\ \A a \in DOMAIN origin : origin[a] # Run(c)
            /\ calls[c].pc = Done =>
                 /\ ~calls[c].out.raised
                 /\ calls[c].out.value = "cannot_train"

\* C16: get_comprehensive_analysis and get_ml_enhanced_alerts return a
\* result for every input; neither of them raises.
C16_AnalysisNeverRaises ==
    (Called("get_comprehensive_analysis") \/ Called("get_ml_enhanced_alerts"))
    => ~ret.out.raised

\* C17: a call of detect_anomalies or predict_personality that follows a
\* call of the same operation on the same event list, artifact files and
\* model answer returns the same output, whatever the time between them.
C17_RepeatedCallsAgree ==
    [][ ( /\ ret.op \in {"detect_anomalies", "predict_personality"}
          /\ ret'.op = ret.op
          /\ arg' = arg )
        => ret'.out = ret.out ]_vars

\* the number of weak signals that hold for the event list at the clock
\* value: impulse score above 0.25, total spend up by more than 150 %,
\* snack share up by more than 20 points, two purchases less than 2 hours
\* apart
WeakSignals ==
    LET f == extract_behavioral_features(df, now)
        one(b) == IF b THEN 1 ELSE 0
    IN  one(RGt(f["impulse_score"], Rat(1, 4)))
        + one("total_spent_change" \in DOMAIN f
                /\ RGt(f["total_spent_change"], RInt(150)))
        + one("snack_shift" \in DOMAIN f /\ RGt(f["snack_shift"], RInt(20)))
        + one(RLt(f["min_interval"], RInt(2)))

\* C18: the rule scan emits emotional_shopping exactly when at least 2 of
\* the 4 weak signals hold; the finding is an alert, is emitted once, and
\* stands after the findings of the individual-metric rules, whichever of
\* them fired.
C18_EmotionalShoppingComposite ==
    Called("_detect_rule_based_anomalies") =>
        LET out == ret.out.value
        IN  /\ HasFinding(out, "emotional_shopping") <=> WeakSignals >= 2
            /\ \A i \in 1..Len(out) :
                 out[i].type = "emotional_shopping" =>
                     /\ i = Len(out)
                     /\ out[i].severity = "alert"

\* emotional_shopping is emitted in one scan together with spending_spike,
\* impulse_buying and category_shift
C18_Witness ==
    /\ Called("_detect_rule_based_anomalies")
    /\ WeakSignals >= 2
    /\ HasFinding(ret.out.value, "emotional_shopping")
    /\ HasFinding(ret.out.value, "spending_spike")
    /\ HasFinding(ret.out.value, "impulse_buying")
    /\ HasFinding(ret.out.value, "category_shift")

\* the archetype of the first rule of the fallback that matches the
\* personality features of the event list
FirstMatchingArchetype ==
    LET f == extract_features(df)
    IN  IF RGt(f["education_ratio"], RInt(40)) THEN "learning_oriented"
        ELSE IF RGt(f["snack_ratio"], RInt(50)) THEN "fun_seeking"
        ELSE IF RGt(f["toy_ratio"], RInt(30))
                  \/ RGt(f["entertainment_ratio"], RInt(25))
        THEN "creative_explorer"
        ELSE IF Len(df) < 5 THEN "careful_chooser"
        ELSE "balanced"

\* C19: without a loadable model, predict_personality on a non-empty list
\* returns the archetype of the first matching rule of the fallback.
C19_FirstMatchingRuleDecides ==
    ( /\ Called("predict_personality")
      /\ ~_load_models(pfiles)
      /\ df # <<>> )
    => /\ ~ret.out.raised
       /\ ret.out.value.personality_type = FirstMatchingArchetype

\* the distances of the latest model answer, and the confidence computed
\* from them
AnswerDistances == [i \in 1..4 |-> arg.distances[i - 1]]

AnswerConfidence ==
    IF Called("predict_personality") THEN ret.out.value.confidence
    ELSE ret.out.value

\* C20: the confidence computed from the distances to the cluster centres
\* lies in [0, 1]; it is at least 0.9 when one distance is 0 and the others
\* are not, and at most 0.5 when the smallest distance is at least three
\* quarters of the largest.
C20_ConfidenceFromDistances ==
    ( /\ Called("predict_personality") \/ Called("_calculate_confidence")
      /\ arg.kind = "kmeans" )
    => /\ RGe(AnswerConfidence, RInt(0))
       /\ RLe(AnswerConfidence, RInt(1))
       /\ Count(AnswerDistances, LAMBDA x : x = 0) = 1
            => RGe(AnswerConfidence, Rat(9, 10))
       /\ ( /\ MaxSeq(AnswerDistances) > 0
            /\ 4 * MinSeq(AnswerDistances) >= 3 * MaxSeq(AnswerDistances) )
            => RLe(AnswerConfidence, Rat(1, 2))

\* the alerts of the three sources in the order of the concatenation
Concatenation == arg.basic \o arg.anomaly \o arg.personality

\* the alerts of s of one priority, in the order they have in s
OfPriority(s, p) == SelectSeq(s, LAMBDA a : priority_order(a.type) = p)

\* the concatenation ordered by priority, equal priorities in input order
StableOrder ==
    OfPriority(Concatenation, 4) \o OfPriority(Concatenation, 3)
      \o OfPriority(Concatenation, 2) \o OfPriority(Concatenation, 1)
      \o OfPriority(Concatenation, 0)

\* C21: the alert fusion returns the first 8 alerts of the concatenation
\* threshold, anomaly, personality ordered by priority with equal priorities
\* kept in the order of the concatenation.
C21_FusionStableOrder ==
    Called("get_ml_enhanced_alerts") =>
        /\ ~ret.out.raised
        /\ ret.out.value = Take(StableOrder, 8)

\* the shift of the spend share of a category between the two windows, in
\* percentage points; no shift is known without purchases in both windows
RatioShift(cat) ==
    IF BothWindows
    THEN RSub(RecentFeatures[RatioKey(cat)], HistoricalFeatures[RatioKey(cat)])
    ELSE RInt(0)

\* the category_shift findings of a finding list that name the category
ShiftFindings(findings, cat) ==
    {i \in 1..Len(findings) :
        /\ findings[i].type = "category_shift"
        /\ findings[i].details.category = cat}

\* C22: the rule scan emits exactly one category_shift finding, of severity
\* info, for each of the five categories whose ratio shift exceeds 30
\* percentage points in absolute value, and none for any other category.
C22_OneShiftFindingPerCategory ==
    Called("_detect_rule_based_anomalies") =>
        /\ \A cat \in CategorySet :
             Cardinality(ShiftFindings(ret.out.value, cat)) =
                 IF RGt(RAbs(RatioShift(cat)), RInt(30)) THEN 1 ELSE 0
        /\ \A i \in 1..Len(ret.out.value) :
             ret.out.value[i].type = "category_shift" =>
                 /\ ret.out.value[i].severity = "info"
                 /\ ret.out.value[i].details.category \in CategorySet

\* two categories lose their whole share and three gain a third each: all
\* five categories are reported in one request
C22_Witness ==
    /\ Called("_detect_rule_based_anomalies")
    /\ \A cat \in CategorySet :
         Cardinality(ShiftFindings(ret.out.value, cat)) = 1
    /\ \E cat \in CategorySet : RLt(RatioShift(cat), RInt(-30))
    /\ \E cat \in CategorySet : RGt(RatioShift(cat), RInt(30))

\* the findings of a finding list that come from the statistical scan
StatisticalFindings(findings) ==
    {i \in 1..Len(findings) : findings[i].type = "ml_detected_anomaly"}

\* C23: every finding of a detection result has a severity among info,
\* warning and alert and a confidence between 0 and 1; at most one finding
\* comes from the statistical scan, and only when the outlier model was
\* loaded, answered, and classified the vector as an outlier.
C23_FindingsWellFormed ==
    Called("detect_anomalies") =>
        LET findings == ret.out.value.anomalies
        IN  /\ \A i \in 1..Len(findings) :
                 /\ findings[i].severity \in {"info", "warning", "alert"}
                 /\ RGe(findings[i].confidence, RInt(0))
                 /\ RLe(findings[i].confidence, RInt(1))
            /\ Cardinality(StatisticalFindings(findings)) <= 1
            /\ StatisticalFindings(findings) # {} =>
                 /\ \A a \in {"isolation_forest", "anomaly_scaler"} :
                      afiles[a] = "fitted"
                 /\ arg.kind = "scan"
                 /\ ~arg.fails
                 /\ arg.answer.prediction = -1

\* the outlier score -0.45 scales to 1.5 and is reported with confidence 1,
\* next to findings of the rule scan of all three severities
C23_Witness ==
    /\ Called("detect_anomalies")
    /\ arg.kind = "scan"
    /\ arg.answer.score = Rat(-45, 100)
    /\ \E i \in StatisticalFindings(ret.out.value.anomalies) :
         ret.out.value.anomalies[i].confidence = RInt(1)
    /\ \A sev \in {"info", "warning", "alert"} :
         \E i \in 1..Len(ret.out.value.anomalies) :
            /\ ret.out.value.anomalies[i].severity = sev
            /\ ret.out.value.anomalies[i].type # "ml_detected_anomaly"

\* what is persisted in the model directory: the state of each artifact file
\* and the training run that wrote it
Persisted == <<afiles, pfiles, origin>>

\* C24: no step of an inference call (predict_personality, detect_anomalies)
\* changes a persisted artifact; the artifacts change only in a save step of
\* a training call whose fitting succeeded.
C24_InferenceNeverWrites ==
    [][ /\ (\E r \in Readers : calls'[r] # calls[r]) => Persisted' = Persisted
        /\ Persisted' # Persisted =>
             \E c \in Trainers :
                /\ calls[c].pc \in 1..3
                /\ calls'[c] # calls[c]
                /\ \A d \in DOMAIN calls \ {c} : calls'[d] = calls[d] ]_vars

\* an inference call has loaded the three artifacts of the earlier run and
\* returned, and a training call has since replaced all three and returned
C24_Witness ==
    \E r \in Readers, c \in Trainers :
        /\ calls[r].pc = Done
        /\ calls[r].out = Return("model")
        /\ \A a \in ModelArtifacts(calls[r].op) : calls[r].mem[a] = 0
        /\ calls[c].pc = Done
        /\ calls[c].out = Return("None")
        /\ \A a \in ModelArtifacts(calls[r].op) : origin[a] = Run(c)

\* the confidence each branch of the fallback may assign at most
BranchCap(name) ==
    CASE name = "learning_oriented" -> Rat(9, 10)
      [] name = "fun_seeking"       -> Rat(8, 10)
      [] name = "creative_explorer" -> Rat(8, 10)
      [] name = "careful_chooser"   -> Rat(7, 10)
      [] name = "balanced"          -> Rat(75, 100)

\* C25: the confidence the rule-based fallback assigns lies between 0 and 1
\* and never exceeds 0.9, whichever branch assigns it; it is a fixed value or
\* a capped multiple of a ratio feature, so it also stays within the cap of
\* its branch.
C25_FallbackConfidenceCapped ==
    Called("_basic_analysis.cascade") =>
        /\ RGe(ret.out.value.confidence, RInt(0))
        /\ RLe(ret.out.value.confidence, RInt(1))
        /\ RLe(ret.out.value.confidence, Rat(9, 10))
        /\ RLe(ret.out.value.confidence, BranchCap(ret.out.value.name))

\* an education share of 100 % would scale to 2 and is assigned 0.9
C25_Witness ==
    /\ Called("_basic_analysis.cascade")
    /\ ret.out.value.name = "learning_oriented"
    /\ extract_features(df)["education_ratio"] = RInt(100)
    /\ ret.out.value.confidence = Rat(9, 10)

\* the risk level a finding list stands for: high with an alert finding,
\* medium with a warning finding and no alert, low otherwise
RiskLevelOf(findings) ==
    IF \E i \in 1..Len(findings) : findings[i].severity = "alert" THEN "high"
    ELSE IF \E i \in 1..Len(findings) : findings[i].severity = "warning"
    THEN "medium"
    ELSE "low"

\* C26: the findings retained by the prioritisation step stand for the same
\* risk level as all merged findings it was given.
C26_TruncationKeepsRiskLevel ==
    Called("_deduplicate_and_prioritize") =>
        /\ RiskLevelOf(ret.out.value) = RiskLevelOf(arg.anomalies)
        /\ _calculate_risk_level(ret.out.value) = RiskLevelOf(arg.anomalies)

\* six merged findings whose only alert is the last one: one finding is
\* dropped and the alert is retained
C26_Witness ==
    /\ Called("_deduplicate_and_prioritize")
    /\ Len(arg.anomalies) = 6
    /\ Len(ret.out.value) = 5
    /\ arg.anomalies[6].severity = "alert"
    /\ \A i \in 1..5 : arg.anomalies[i].severity # "alert"
    /\ RiskLevelOf(ret.out.value) = "high"

\* what the rule scan emits for the request at hand
RuleFindings ==
    _detect_rule_based_anomalies(extract_behavioral_features(df, now), now)

AlertFindings(findings) ==
    {i \in 1..Len(findings) : findings[i].severity = "alert"}

\* C27: a request whose rule scan emits spending_spike and impulse_buying
\* also gets emotional_shopping from it; its detection result has the risk
\* level high and emotional_shopping as first finding; no rule scan and no
\* detection result holds more than one finding of severity alert.
C27_SpikeAndImpulseImplyEmotional ==
    /\ Called("_detect_rule_based_anomalies") =>
         /\ (HasFinding(ret.out.value, "spending_spike")
               /\ HasFinding(ret.out.value, "impulse_buying"))
              => HasFinding(ret.out.value, "emotional_shopping")
         /\ Cardinality(AlertFindings(ret.out.value)) <= 1
    /\ Called("detect_anomalies") =>
         /\ (HasFinding(RuleFindings, "spending_spike")
               /\ HasFinding(RuleFindings, "impulse_buying"))
              => /\ ret.out.value.risk_level = "high"
                 /\ ret.out.value.anomalies[1].type = "emotional_shopping"
         /\ Cardinality(AlertFindings(ret.out.value.anomalies)) <= 1

\* spend more than tripled and the recent purchases follow each other within
\* the hour; the statistical scan adds a finding of full confidence, and the
\* emotional_shopping finding still comes first
C27_Witness ==
    /\ Called("detect_anomalies")
    /\ HasFinding(RuleFindings, "spending_spike")
    /\ HasFinding(RuleFindings, "impulse_buying")
    /\ HasFinding(ret.out.value.anomalies, "ml_detected_anomaly")
    /\ ret.out.value.anomalies[1].type = "emotional_shopping"
    /\ RLt(ret.out.value.anomalies[1].confidence, RInt(1))
    /\ ret.out.value.risk_level = "high"

\* the number of purchases of the event list inside and before the recent
\* window, counted from the timestamps
RecentCount ==
    Cardinality({i \in 1..Len(df) : df[i].timestamp >= now - window_days * Day})

HistoricalCount ==
    Cardinality({i \in 1..Len(df) : df[i].timestamp < now - window_days * Day})

\* C28: a computed total_purchases_change is greater than -100, and the rule
\* scan emits frequency_change only when the recent window holds more
\* purchases than the historical one, never for a decrease.
C28_FrequencyChangeOnlyForIncrease ==
    /\ (Called("extract_behavioral_features")
          /\ "total_purchases_change" \in DOMAIN ret.out.value)
         => RGt(ret.out.value["total_purchases_change"], RInt(-100))
    /\ Called("_detect_rule_based_anomalies") =>
         \A i \in 1..Len(ret.out.value) :
            ret.out.value[i].type = "frequency_change" =>
               /\ RecentCount > HistoricalCount
               /\ RGt(ret.out.value[i].details.value, RInt(150))

\* one earlier purchase and at least three recent ones: the count tripled
\* and the finding is emitted
C28_Witness ==
    /\ Called("_detect_rule_based_anomalies")
    /\ HistoricalCount = 1
    /\ RecentCount >= 3
    /\ HasFinding(ret.out.value, "frequency_change")

\* C29: for an event list with purchases in the recent window and none
\* before it, the rule scan emits no spending_spike, frequency_change,
\* category_shift or time_pattern_shift finding; what it emits is of type
\* impulse_buying or emotional_shopping.
C29_NoBaselineNoChangeFinding ==
    (Called("_detect_rule_based_anomalies")
       /\ RecentCount > 0 /\ HistoricalCount = 0) =>
        \A i \in 1..Len(ret.out.value) :
           /\ ret.out.value[i].type
                \notin {"spending_spike", "frequency_change",
                        "category_shift", "time_pattern_shift"}
           /\ ret.out.value[i].type \in {"impulse_buying", "emotional_shopping"}

\* recent purchases only, two of them in the same second: both findings that
\* need no baseline are emitted
C29_Witness ==
    /\ Called("_detect_rule_based_anomalies")
    /\ RecentCount >= 2
    /\ HistoricalCount = 0
    /\ HasFinding(ret.out.value, "impulse_buying")
    /\ HasFinding(ret.out.value, "emotional_shopping")
    /\ Len(ret.out.value) = 2

\* the event list holds purchases, all of them older than the recent window
OnlyHistorical == HistoricalCount > 0 /\ RecentCount = 0

\* the detection result of a request without any finding
NormalPattern(result) ==
    /\ result.risk_level = "low"
    /\ result.summary = <<"normal_pattern", 0>>
    /\ result.anomalies = <<>>
    /\ ~result.anomalies_detected

\* C30 as stated: for an event list with historical purchases only, the
\* feature vector is the one of the empty event list, the rule scan emits no
\* finding, and the detection result has the risk level low and the
\* normal-pattern summary.
C30_HistoricalOnlyIsNormal ==
    OnlyHistorical =>
        /\ Called("extract_behavioral_features") =>
             ret.out.value = extract_behavioral_features(<<>>, now)
        /\ Called("_detect_rule_based_anomalies") => ret.out.value = <<>>
        /\ Called("detect_anomalies") =>
             /\ ret.out.value.risk_level = "low"
             /\ ret.out.value.summary = <<"normal_pattern", 0>>

\* the outlier model was loaded, answered and took the vector for an outlier
OutlierReported ==
    /\ \A a \in {"isolation_forest", "anomaly_scaler"} : afiles[a] = "fitted"
    /\ arg.kind = "scan"
    /\ ~arg.fails
    /\ arg.answer.prediction = -1

\* C30 amended: for an event list with historical purchases only, the
\* feature vector is the one of the empty event list and the rule scan emits
\* no finding; the detection result is the normal-pattern result with risk
\* level low unless the outlier model reports the default vector, and then
\* it holds that one finding and has the risk level medium.
C30_HistoricalOnlyRulesSilent ==
    OnlyHistorical =>
        /\ Called("extract_behavioral_features") =>
             ret.out.value = extract_behavioral_features(<<>>, now)
        /\ Called("_detect_rule_based_anomalies") => ret.out.value = <<>>
        /\ Called("detect_anomalies") =>
             IF OutlierReported
             THEN /\ Len(ret.out.value.anomalies) = 1
                  /\ ret.out.value.anomalies[1].type = "ml_detected_anomaly"
                  /\ ret.out.value.risk_level = "medium"
                  /\ ret.out.value.summary = <<"changes_observed", 1>>
             ELSE NormalPattern(ret.out.value)

\* two purchases older than the window, a loadable outlier model that takes
\* the vector for normal: the result is the normal-pattern result
C30_Witness ==
    /\ OnlyHistorical
    /\ HistoricalCount >= 2
    /\ Called("detect_anomalies")
    /\ arg.kind = "scan"
    /\ ~arg.fails
    /\ arg.answer.prediction = 1
    /\ NormalPattern(ret.out.value)

====
